---- MODULE Spec2Model ----
(***************************************************************************)
(* The to-do list REST API: the request handlers of todosController.ts,   *)
(* the conditional mount of the test router in index.ts, and the document *)
(* store (the Todo model) they delegate to.  One action per HTTP request; *)
(* `last` is the request just served together with its response.         *)
(***************************************************************************)
EXTENDS Integers, Sequences, FiniteSets, TLC

\* Bounds of the model.
MaxCreates == 2      \* how many Items are ever inserted
IdLen == 2           \* digits of a store identifier (24 in the reference store)

VARIABLES collection, nextId, NODE_ENV, last

vars == <<collection, nextId, NODE_ENV, last>>

----------------------------------------------------------------------------
(* JSON values of a request body, and the values a stored field can hold.  *)
(* k is the JavaScript type, s the text of the value.                      *)

Absent == [k |-> "undefined", s |-> ""]
Null == [k |-> "null", s |-> ""]
Str(x) == [k |-> "string", s |-> x]
Bool(b) == [k |-> "boolean", s |-> IF b THEN "true" ELSE "false"]
Obj == [k |-> "object", s |-> ""]
CastError == [k |-> "CastError", s |-> ""]

\* The values a request supplies for title and for completed.
TitleInputs == {Absent, Null, Str(""), Str("a"), Obj}
CompletedInputs == {Absent, Bool(TRUE), Bool(FALSE), Obj}

\* JavaScript truthiness, as `!newValue.title` and `!newValue.completed` use it.
Truthy(v) ==
    CASE v.k = "undefined" -> FALSE
      [] v.k = "null" -> FALSE
      [] v.k = "string" -> v.s # ""
      [] v.k = "number" -> v.s # "0"
      [] v.k = "boolean" -> v.s = "true"
      [] OTHER -> TRUE

----------------------------------------------------------------------------
(* Identifiers: a sequence of digits, 0..15 the hexadecimal ones.          *)

RECURSIVE Pow16(_)
Pow16(e) == IF e = 0 THEN 1 ELSE 16 * Pow16(e - 1)

\* The n-th identifier the store generates.
IdOf(n) == [i \in 1..IdLen |-> (n \div Pow16(IdLen - i)) % 16]

\* The store's identifier format: fixed length, hexadecimal.
WellFormedId(id) == Len(id) = IdLen /\ \A i \in 1..Len(id) : id[i] \in 0..15

NoId == <<>>
TooShortId == [i \in 1..(IdLen - 1) |-> 1]
\* The identifiers of requests: IdOf(0) is well formed and never generated,
\* TooShortId is malformed.
PathIds == {IdOf(n) : n \in 0..MaxCreates} \cup {TooShortId}

----------------------------------------------------------------------------
(* The Item schema: title a required String, completed a Boolean that      *)
(* defaults to false.                                                      *)

\* The schema's cast of a value to String.
CastString(v) ==
    CASE v.k \in {"undefined", "null"} -> v
      [] v.k = "string" -> v
      [] v.k \in {"number", "boolean"} -> Str(v.s)
      [] OTHER -> CastError

\* The schema's cast of a value to Boolean.
CastBoolean(v) ==
    CASE v.k \in {"undefined", "null"} -> v
      [] v.k = "boolean" -> v
      [] v.k = "string" /\ v.s \in {"true", "1", "yes"} -> Bool(TRUE)
      [] v.k = "string" /\ v.s \in {"false", "0", "no"} -> Bool(FALSE)
      [] v.k = "number" /\ v.s = "1" -> Bool(TRUE)
      [] v.k = "number" /\ v.s = "0" -> Bool(FALSE)
      [] OTHER -> CastError

\* new Todo(body): the document with its generated id, its fields cast and
\* completed defaulted when the body omits it.
NewTodo(nid, title, completed) ==
    [id |-> IdOf(nid),
     title |-> CastString(title),
     completed |-> IF completed = Absent THEN Bool(FALSE) ELSE CastBoolean(completed)]

\* Validation at save: no cast failed and the required title is a non-empty string.
Validates(doc) ==
    /\ doc.title.k = "string"
    /\ doc.title.s # ""
    /\ doc.completed # CastError

----------------------------------------------------------------------------
(* The store.  Each operation returns whether it threw, the documents it   *)
(* returns and the collection it leaves.  `fault` is a failure of the      *)
(* store itself (the connection, the driver).                              *)

HasId(coll, id) == \E i \in DOMAIN coll : coll[i].id = id

Todo_find(coll, fault) ==
    [threw |-> fault, docs |-> IF fault THEN <<>> ELSE coll, coll |-> coll]

Todo_save(coll, doc, fault) ==
    IF fault \/ ~Validates(doc)
    THEN [threw |-> TRUE, docs |-> <<>>, coll |-> coll]
    ELSE [threw |-> FALSE, docs |-> <<doc>>, coll |-> Append(coll, doc)]

\* The update applied to one document: the supplied fields, cast, are set.
Merged(doc, title, completed) ==
    [id |-> doc.id,
     title |-> IF title = Absent THEN doc.title ELSE CastString(title),
     completed |-> IF completed = Absent THEN doc.completed ELSE CastBoolean(completed)]

\* Mutant: the option {new: true} is dropped, so the document is returned as it
\* was before the update.
Todo_findByIdAndUpdate_ReturnsOld(coll, id, title, completed, fault) ==
    IF \/ fault
       \/ ~WellFormedId(id)
       \/ CastString(title) = CastError
       \/ CastBoolean(completed) = CastError
    THEN [threw |-> TRUE, docs |-> <<>>, coll |-> coll]
    ELSE [threw |-> FALSE,
          docs |-> SelectSeq(coll, LAMBDA d : d.id = id),
          coll |-> [i \in DOMAIN coll |->
                       IF coll[i].id = id
                       THEN Merged(coll[i], title, completed)
                       ELSE coll[i]]]

\* findByIdAndUpdate(id, update, {new: true}): validators are not run; the
\* document is returned as it is after the update, null when none matches.
Todo_findByIdAndUpdate(coll, id, title, completed, fault) ==
    IF \/ fault
       \/ ~WellFormedId(id)
       \/ CastString(title) = CastError
       \/ CastBoolean(completed) = CastError
    THEN [threw |-> TRUE, docs |-> <<>>, coll |-> coll]
    ELSE LET new == [i \in DOMAIN coll |->
                        IF coll[i].id = id
                        THEN Merged(coll[i], title, completed)
                        ELSE coll[i]]
         IN [threw |-> FALSE,
             docs |-> SelectSeq(new, LAMBDA d : d.id = id),
             coll |-> new]

\* Mutant: the filter is lost and the oldest document is deleted.
Todo_findByIdAndDelete_DeletesFirst(coll, id, fault) ==
    IF fault
    THEN [threw |-> TRUE, docs |-> <<>>, coll |-> coll]
    ELSE [threw |-> FALSE,
          docs |-> SelectSeq(coll, LAMBDA d : d.id = id),
          coll |-> IF coll = <<>> THEN coll ELSE Tail(coll)]

Todo_findByIdAndDelete(coll, id, fault) ==
    IF fault
    THEN [threw |-> TRUE, docs |-> <<>>, coll |-> coll]
    ELSE [threw |-> FALSE,
          docs |-> SelectSeq(coll, LAMBDA d : d.id = id),
          coll |-> SelectSeq(coll, LAMBDA d : d.id # id)]

Todo_deleteMany(coll, fault) ==
    IF fault
    THEN [threw |-> TRUE, docs |-> <<>>, coll |-> coll]
    ELSE [threw |-> FALSE, docs |-> <<>>, coll |-> <<>>]

----------------------------------------------------------------------------
(* The handlers.  Each returns the response and the collection it leaves.  *)

Response(status, kind, items, error, called) ==
    [status |-> status, kind |-> kind, items |-> items, error |-> error,
     storeCalled |-> called]

InternalServerError == Response(500, "error", <<>>, "Internal server error", TRUE)

getAllTodos(coll, fault) ==
    LET r == Todo_find(coll, fault)
    IN IF r.threw
       THEN [coll |-> r.coll, resp |-> InternalServerError]
       ELSE [coll |-> r.coll, resp |-> Response(200, "array", r.docs, "", TRUE)]

\* Mutant: the document is built and returned but never saved.
addTodo_NotPersisted(coll, nid, title, completed, fault) ==
    LET r == Todo_save(coll, NewTodo(nid, title, completed), fault)
    IN IF r.threw
       THEN [coll |-> coll, resp |-> InternalServerError]
       ELSE [coll |-> coll, resp |-> Response(201, "object", r.docs, "", TRUE)]

\* Mutant: a title that is missing or empty is answered 400 "Invalid todo"
\* before the store is called.
addTodo_InvalidTodo(coll, nid, title, completed, fault) ==
    IF ~Truthy(title)
    THEN [coll |-> coll, resp |-> Response(400, "error", <<>>, "Invalid todo", FALSE)]
    ELSE LET r == Todo_save(coll, NewTodo(nid, title, completed), fault)
         IN IF r.threw
            THEN [coll |-> r.coll, resp |-> InternalServerError]
            ELSE [coll |-> r.coll, resp |-> Response(201, "object", r.docs, "", TRUE)]

addTodo(coll, nid, title, completed, fault) ==
    LET r == Todo_save(coll, NewTodo(nid, title, completed), fault)
    IN IF r.threw
       THEN [coll |-> r.coll, resp |-> InternalServerError]
       ELSE [coll |-> r.coll, resp |-> Response(201, "object", r.docs, "", TRUE)]

\* Mutant: only the empty title is rejected.
PreValidationRejects_TitleOnly(title, completed) ==
    title = Str("")

\* (!newValue.title && !newValue.completed) || newValue.title === ""
PreValidationRejects(title, completed) ==
    (~Truthy(title) /\ ~Truthy(completed)) \/ title = Str("")

\* Mutant: a malformed identifier is answered 400 "Invalid Id" before the store
\* is called.
editTodo_ChecksId(coll, id, title, completed, fault) ==
    IF PreValidationRejects(title, completed)
    THEN [coll |-> coll, resp |-> Response(400, "error", <<>>, "Invalid request", FALSE)]
    ELSE IF ~WellFormedId(id)
    THEN [coll |-> coll, resp |-> Response(400, "error", <<>>, "Invalid Id", FALSE)]
    ELSE LET r == Todo_findByIdAndUpdate(coll, id, title, completed, fault)
         IN IF r.threw
            THEN [coll |-> r.coll, resp |-> InternalServerError]
            ELSE [coll |-> r.coll,
                  resp |-> Response(200, IF r.docs = <<>> THEN "null" ELSE "object",
                                    r.docs, "", TRUE)]

\* Mutant: a null update result is answered 400 "Invalid Id".
editTodo_NullIsInvalidId(coll, id, title, completed, fault) ==
    IF PreValidationRejects(title, completed)
    THEN [coll |-> coll, resp |-> Response(400, "error", <<>>, "Invalid request", FALSE)]
    ELSE LET r == Todo_findByIdAndUpdate(coll, id, title, completed, fault)
         IN IF r.threw
            THEN [coll |-> r.coll, resp |-> InternalServerError]
            ELSE IF r.docs = <<>>
            THEN [coll |-> r.coll, resp |-> Response(400, "error", <<>>, "Invalid Id", TRUE)]
            ELSE [coll |-> r.coll, resp |-> Response(200, "object", r.docs, "", TRUE)]

editTodo(coll, id, title, completed, fault) ==
    IF PreValidationRejects(title, completed)
    THEN [coll |-> coll, resp |-> Response(400, "error", <<>>, "Invalid request", FALSE)]
    ELSE LET r == Todo_findByIdAndUpdate(coll, id, title, completed, fault)
         IN IF r.threw
            THEN [coll |-> r.coll, resp |-> InternalServerError]
            ELSE [coll |-> r.coll,
                  resp |-> Response(200, IF r.docs = <<>> THEN "null" ELSE "object",
                                    r.docs, "", TRUE)]

deleteTodo(coll, id, fault) ==
    IF ~WellFormedId(id)
    THEN [coll |-> coll, resp |-> Response(400, "error", <<>>, "Invalid Id", FALSE)]
    ELSE LET r == Todo_findByIdAndDelete(coll, id, fault)
         IN IF r.threw
            THEN [coll |-> r.coll, resp |-> InternalServerError]
            ELSE [coll |-> r.coll, resp |-> Response(200, "empty", <<>>, "", TRUE)]

deleteAll(coll, fault) ==
    LET r == Todo_deleteMany(coll, fault)
    IN IF r.threw
       THEN [coll |-> r.coll, resp |-> InternalServerError]
       ELSE [coll |-> r.coll, resp |-> Response(200, "empty", <<>>, "", TRUE)]

\* Mutant: the test router is mounted whatever the mode.
TestRouterMounted_Always(env) == TRUE

\* if (process.env.NODE_ENV === "test") app.use("/api/test", testingRouter)
TestRouterMounted(env) == env = "test"

\* A request no route matches.
NotFound(coll) == [coll |-> coll, resp |-> Response(404, "error", <<>>, "", FALSE)]

----------------------------------------------------------------------------
(* The requests.                                                           *)

Request(op, id, title, completed, fault) ==
    [op |-> op, id |-> id, title |-> title, completed |-> completed, fault |-> fault]

Served(req, h) ==
    /\ collection' = h.coll
    /\ last' = [req |-> req, resp |-> h.resp]

Init ==
    /\ collection = <<>>
    /\ nextId = 1
    /\ NODE_ENV \in {"test", "production"}
    /\ last = [req |-> Request("none", NoId, Absent, Absent, FALSE),
               resp |-> Response(0, "none", <<>>, "", FALSE)]

GET_todos ==
    \E fault \in BOOLEAN :
        /\ Served(Request("list", NoId, Absent, Absent, fault),
                  getAllTodos(collection, fault))
        /\ UNCHANGED <<nextId, NODE_ENV>>

POST_todos ==
    \E title \in TitleInputs, completed \in CompletedInputs, fault \in BOOLEAN :
        LET h == addTodo(collection, nextId, title, completed, fault)
        IN /\ nextId <= MaxCreates
           /\ Served(Request("create", NoId, title, completed, fault), h)
           /\ nextId' = IF h.resp.status = 201 THEN nextId + 1 ELSE nextId
           /\ UNCHANGED NODE_ENV

PATCH_todos_id ==
    \E id \in PathIds, title \in TitleInputs, completed \in CompletedInputs,
       fault \in BOOLEAN :
        /\ Served(Request("update", id, title, completed, fault),
                  editTodo(collection, id, title, completed, fault))
        /\ UNCHANGED <<nextId, NODE_ENV>>

DELETE_todos_id ==
    \E id \in PathIds, fault \in BOOLEAN :
        /\ Served(Request("delete", id, Absent, Absent, fault),
                  deleteTodo(collection, id, fault))
        /\ UNCHANGED <<nextId, NODE_ENV>>

POST_test_deleteAll ==
    \E fault \in BOOLEAN :
        /\ Served(Request("reset", NoId, Absent, Absent, fault),
                  IF TestRouterMounted(NODE_ENV)
                  THEN deleteAll(collection, fault)
                  ELSE NotFound(collection))
        /\ UNCHANGED <<nextId, NODE_ENV>>

Next ==
    \/ GET_todos
    \/ POST_todos
    \/ PATCH_todos_id
    \/ DELETE_todos_id
    \/ POST_test_deleteAll

Spec == Init /\ [][Next]_vars

----------------------------------------------------------------------------
(* The properties.  In a step, last' is the request served by the step and *)
(* its response; collection and collection' are the store before and after.*)

NonEmptyString(v) == v.k = "string" /\ v.s # ""
Supplied(v) == v.k \notin {"undefined", "null"}
Items(coll) == {coll[i] : i \in DOMAIN coll}
ItemWithId(coll, id) == CHOOSE d \in Items(coll) : d.id = id
InvalidRequest == Response(400, "error", <<>>, "Invalid request", FALSE)
InvalidId == Response(400, "error", <<>>, "Invalid Id", FALSE)

\* The create just served answered 201 with the persisted Item: the supplied
\* title, completed false when omitted, an id no Item had, and the collection
\* is the previous one plus exactly that Item.
CreatedAsClaimed ==
    /\ last'.resp.status = 201
    /\ last'.resp.kind = "object"
    /\ Len(last'.resp.items) = 1
    /\ LET it == last'.resp.items[1]
       IN /\ it.title = last'.req.title
          /\ (last'.req.completed = Absent => it.completed = Bool(FALSE))
          /\ ~HasId(collection, it.id)
          /\ collection' = Append(collection, it)

C2_UpdateFrame ==
    [][(/\ last'.req.op = "update"
        /\ last'.resp.status = 200
        /\ HasId(collection, last'.req.id)) =>
       (/\ Len(collection') = Len(collection)
        /\ \A i \in DOMAIN collection :
              /\ collection'[i].id = collection[i].id
              /\ collection[i].id # last'.req.id => collection'[i] = collection[i]
              /\ collection[i].id = last'.req.id =>
                    /\ last'.req.title = Absent =>
                          collection'[i].title = collection[i].title
                    /\ last'.req.completed = Absent =>
                          collection'[i].completed = collection[i].completed
                    /\ last'.resp.items = <<collection'[i]>>)]_vars

C2_Witness ==
    /\ last.req.op = "update"
    /\ last.resp.status = 200
    /\ last.req.title = Absent
    /\ last.req.completed = Bool(TRUE)
    /\ Len(collection) = 2
    /\ last.resp.items = <<collection[2]>>
    /\ collection[2].title = Str("a")
    /\ collection[1].completed = Bool(FALSE)

\* C3: an update whose payload supplies neither title nor completed is answered
\* 400 "Invalid request" for every identifier and store state, the store is not
\* called and the collection is unchanged.
C3_EmptyPayloadRejected ==
    [][(/\ last'.req.op = "update"
        /\ last'.req.title = Absent
        /\ last'.req.completed = Absent) =>
       (last'.resp = InvalidRequest /\ collection' = collection)]_vars

C3_Witness ==
    /\ last.req.op = "update"
    /\ last.req.title = Absent
    /\ last.req.completed = Absent
    /\ HasId(collection, last.req.id)
    /\ last.resp = InvalidRequest

C5_DeleteExisting ==
    [][/\ (/\ last'.req.op = "delete"
           /\ HasId(collection, last'.req.id)
           /\ ~last'.req.fault) =>
          (/\ last'.resp.status = 200
           /\ Len(collection') = Len(collection) - 1
           /\ ~HasId(collection', last'.req.id)
           /\ Items(collection') = Items(collection) \ {ItemWithId(collection, last'.req.id)}
           /\ \A i, j \in DOMAIN collection' :
                 i < j => \E k, l \in DOMAIN collection :
                             /\ k < l
                             /\ collection[k] = collection'[i]
                             /\ collection[l] = collection'[j])
       /\ (/\ last.req.op = "delete"
           /\ last.resp.status = 200
           /\ last'.req.op = "list"
           /\ ~last'.req.fault) =>
          (/\ last'.resp.status = 200
           /\ \A i \in DOMAIN last'.resp.items : last'.resp.items[i].id # last.req.id)]_vars

C5_Witness ==
    /\ last.req.op = "delete"
    /\ last.req.id = IdOf(1)
    /\ last.resp.status = 200
    /\ nextId = 3
    /\ Len(collection) = 1
    /\ collection[1].id = IdOf(2)

\* Whether the store interaction of a request throws.
StoreThrows(req, coll, nid) ==
    CASE req.op = "list" -> Todo_find(coll, req.fault).threw
      [] req.op = "create" ->
            Todo_save(coll, NewTodo(nid, req.title, req.completed), req.fault).threw
      [] req.op = "update" ->
            /\ ~PreValidationRejects(req.title, req.completed)
            /\ Todo_findByIdAndUpdate(coll, req.id, req.title, req.completed,
                                      req.fault).threw
      [] OTHER -> FALSE

C7_ResetOnlyInTestMode ==
    [][/\ (/\ last'.req.op = "reset"
           /\ NODE_ENV = "test"
           /\ ~last'.req.fault) =>
          (last'.resp.status = 200 /\ collection' = <<>>)
       /\ (/\ last'.req.op = "reset"
           /\ NODE_ENV # "test") =>
          (last'.resp.status = 404 /\ collection' = collection)
       /\ (/\ last.req.op = "reset"
           /\ last.resp.status = 200
           /\ last'.req.op = "list"
           /\ ~last'.req.fault) =>
          (last'.resp.status = 200 /\ last'.resp.items = <<>>)]_vars

C7_Witness ==
    /\ last.req.op = "reset"
    /\ last.resp.status = 200
    /\ NODE_ENV = "test"
    /\ nextId = 3
    /\ collection = <<>>

\* C8: every Item of the collection has a non-empty title and a boolean
\* completed, whatever requests were served.
C8_ItemsValid ==
    \A i \in DOMAIN collection :
        /\ NonEmptyString(collection[i].title)
        /\ collection[i].completed.k = "boolean"

\* The update just served was applied to the Item it names.
Applied ==
    /\ last'.resp.status = 200
    /\ HasId(collection', last'.req.id)
    /\ LET d == ItemWithId(collection', last'.req.id)
       IN /\ last'.req.title # Absent => d.title = last'.req.title
          /\ last'.req.completed # Absent => d.completed = last'.req.completed

\* C9: the update pre-validation rejects with 400 "Invalid request" only a
\* payload that supplies neither title nor completed, or whose title is ""; a
\* payload with completed true or false and no title key, and a payload with a
\* non-empty title, pass it and are applied to the Item.
C9_PreValidation ==
    [][last'.req.op = "update" =>
       (/\ last'.resp = InvalidRequest =>
              \/ ~Supplied(last'.req.title) /\ ~Supplied(last'.req.completed)
              \/ last'.req.title = Str("")
        /\ (/\ \/ last'.req.title = Absent /\ last'.req.completed.k = "boolean"
               \/ NonEmptyString(last'.req.title) /\ last'.req.completed.k \in {"undefined", "boolean"}
            /\ HasId(collection, last'.req.id)
            /\ ~last'.req.fault) => Applied)]_vars

\* A payload that passes the pre-validation and that the schema can cast.
ValidUpdatePayload(title, completed) ==
    /\ ~PreValidationRejects(title, completed)
    /\ CastString(title) # CastError
    /\ CastBoolean(completed) # CastError

====
